---- MODULE Spec2Model ----
(***************************************************************************)
(* Model of src/app/page.tsx: the ImageGalleryPage component.              *)
(*                                                                         *)
(* State: the React state of the component (images, loading, uploading),   *)
(* the local variables of every loadImages invocation, the position of     *)
(* every handleFileUpload / handleDelete handler, and the storage bucket   *)
(* behind list / getUrl / uploadData / remove.                             *)
(*                                                                         *)
(* JavaScript runs every continuation to completion, so one action is one  *)
(* run of the event loop: from the event (a click, a promise settling) up  *)
(* to the next await that waits on the network.                            *)
(*                                                                         *)
(* A call to the store is two actions: the store acts, and later the       *)
(* response reaches the component or is lost.  The store answers a list    *)
(* request from the bucket as it is when it answers, and the component     *)
(* may handle other events before the answer reaches it; an upload or a    *)
(* removal may reject although the bucket has changed.  A signed URL does  *)
(* not depend on the bucket, so that getUrl is the one action of its       *)
(* response.                                                               *)
(* The early returns that change nothing (no file chosen, line 89;         *)
(* confirm() declined, line 136) are stuttering steps, and uploadProgress, *)
(* which no handler reads, is left out.                                    *)
(*                                                                         *)
(* A string is the sequence of its Unicode code points; Str writes one     *)
(* from its ASCII characters.  An absent value (undefined) is <<>> and a   *)
(* present optional value v is <<v>>, so the empty string "" is <<>> and   *)
(* a present empty string is << <<>> >>.                                   *)
(*                                                                         *)
(* Two things the code reads from the machine it runs on are choices of    *)
(* the model: the Unicode data of the JavaScript engine, which decides     *)
(* what toLowerCase gives for code points that later Unicode versions      *)
(* added or changed (engine, chosen at the start of a run), and the        *)
(* reading of the clock (Date.now(), chosen at every call).                *)
(***************************************************************************)
EXTENDS Integers, Sequences, FiniteSets, TLC

VARIABLES
    bucket,      \* storage: the objects under images/, in listing order
    cuts,        \* storage: the offsets after which a listing page ends early
    engine,      \* the JavaScript engine: where its Unicode data depart from the tables
    ver,         \* storage: number of mutations performed so far (history)
    images,      \* useState images
    loading,     \* useState loading
    uploading,   \* useState uploading
    lastAlert,   \* the message of the most recent alert()
    nInv,        \* number of loadImages invocations started so far
    pc,          \* per invocation: "idle" | "list" | "urls" | "done" | "failed"
    nextToken,   \* per invocation: local nextToken
    allImages,   \* per invocation: local allImages
    imageFiles,  \* per invocation: imageFiles of the page being resolved
    urls,        \* per invocation: per retained item, <<>> (pending) or <<url>>
    pageToken,   \* per invocation: result.nextToken of the page being resolved
    listing,     \* per invocation: <<>>, or <<result>>: the store's answer to the
                 \* list request that is out, on its way to the component
    reqs,        \* per invocation: cursors of the list requests issued (history)
    resps,       \* per invocation: nextToken of the list responses received (history)
    got,         \* per invocation: paths retained from the responses received (history)
    verStart,    \* per invocation: ver when the invocation started (history)
    pubOrder,    \* ids of the invocations that called setImages, in order (history)
    nOps,        \* number of handleFileUpload / handleDelete runs so far
    ops          \* per handler run: [kind, pc, path, data, load, ver]; ver is the
                 \* value of ver once storage has performed its mutation, else 0

vars == <<bucket, cuts, engine, ver, images, loading, uploading, lastAlert, nInv, pc, nextToken,
          allImages, imageFiles, urls, pageToken, listing, reqs, resps, got,
          verStart, pubOrder, nOps, ops>>

loadVars == <<imageFiles, urls, pageToken, listing, resps, got>>

----------------------------------------------------------------------------
(* Bounds of the model *)

MaxLoads == 2        \* loadImages invocations per run
MaxOps == 1          \* upload / delete handlers per run
MaxPageLen == 2      \* most items the store puts in one page

(* Program constants *)

pageSize == 100
expiresIn == 3600

Inv == 1..MaxLoads
Ops == 1..MaxOps

undefined == <<>>
Some(v) == <<v>>

Min(a, b) == IF a < b THEN a ELSE b
Last(s) == s[Len(s)]
Range(s) == {s[k] : k \in 1..Len(s)}

----------------------------------------------------------------------------
(* Strings *)

(* The ASCII characters the model writes strings with, from "-" (code     *)
(* point 45) to "z" (122); the characters between that are not used are    *)
(* left empty.                                                             *)
Ascii ==
    <<"-",".","/","0","1","2","3","4","5","6","7","8","9","","","","","","",
      "","A","B","C","D","E","F","G","H","I","J","K","L","M","N","O","P","Q",
      "R","S","T","U","V","W","X","Y","Z","","","","","","","a","b","c","d",
      "e","f","g","h","i","j","k","l","m","n","o","p","q","r","s","t","u","v",
      "w","x","y","z">>

Str(chars) ==
    [k \in 1..Len(chars) |->
        44 + (CHOOSE j \in 1..Len(Ascii) : Ascii[j] = chars[k])]

(* The tables below are those of Unicode 14.  An engine of a later         *)
(* version treats some code points otherwise: the ones that version added  *)
(* and the few whose properties it changed.  An engine e is the record of  *)
(* these departures: e.lower maps a code point to its lower case,          *)
(* e.cased and e.uncased are the code points that are, and are not, cased  *)
(* letters for it, e.ignorable and e.unignorable the ones that are, and    *)
(* are not, case-ignorable.  For every other code point the tables hold.   *)

(* Unicode 14 lower-case mappings of the code points from 128 up, as       *)
(* <<first, last, step, offset>>: first, first + step, ..., last each map  *)
(* to themselves plus offset.                                              *)
LowerRanges ==
    <<
    <<192,214,1,32>>, <<216,222,1,32>>, <<256,302,2,1>>, <<306,310,2,1>>,
    <<313,327,2,1>>, <<330,374,2,1>>, <<376,376,1,-121>>, <<377,381,2,1>>,
    <<385,385,1,210>>, <<386,388,2,1>>, <<390,390,1,206>>, <<391,391,1,1>>,
    <<393,394,1,205>>, <<395,395,1,1>>, <<398,398,1,79>>, <<399,399,1,202>>,
    <<400,400,1,203>>, <<401,401,1,1>>, <<403,403,1,205>>, <<404,404,1,207>>,
    <<406,406,1,211>>, <<407,407,1,209>>, <<408,408,1,1>>, <<412,412,1,211>>,
    <<413,413,1,213>>, <<415,415,1,214>>, <<416,420,2,1>>, <<422,422,1,218>>,
    <<423,423,1,1>>, <<425,425,1,218>>, <<428,428,1,1>>, <<430,430,1,218>>,
    <<431,431,1,1>>, <<433,434,1,217>>, <<435,437,2,1>>, <<439,439,1,219>>,
    <<440,440,1,1>>, <<444,444,1,1>>, <<452,452,1,2>>, <<453,453,1,1>>,
    <<455,455,1,2>>, <<456,456,1,1>>, <<458,458,1,2>>, <<459,475,2,1>>,
    <<478,494,2,1>>, <<497,497,1,2>>, <<498,500,2,1>>, <<502,502,1,-97>>,
    <<503,503,1,-56>>, <<504,542,2,1>>, <<544,544,1,-130>>, <<546,562,2,1>>,
    <<570,570,1,10795>>, <<571,571,1,1>>, <<573,573,1,-163>>,
    <<574,574,1,10792>>, <<577,577,1,1>>, <<579,579,1,-195>>,
    <<580,580,1,69>>, <<581,581,1,71>>, <<582,590,2,1>>, <<880,882,2,1>>,
    <<886,886,1,1>>, <<895,895,1,116>>, <<902,902,1,38>>, <<904,906,1,37>>,
    <<908,908,1,64>>, <<910,911,1,63>>, <<913,929,1,32>>, <<931,939,1,32>>,
    <<975,975,1,8>>, <<984,1006,2,1>>, <<1012,1012,1,-60>>, <<1015,1015,1,1>>,
    <<1017,1017,1,-7>>, <<1018,1018,1,1>>, <<1021,1023,1,-130>>,
    <<1024,1039,1,80>>, <<1040,1071,1,32>>, <<1120,1152,2,1>>,
    <<1162,1214,2,1>>, <<1216,1216,1,15>>, <<1217,1229,2,1>>,
    <<1232,1326,2,1>>, <<1329,1366,1,48>>, <<4256,4293,1,7264>>,
    <<4295,4295,1,7264>>, <<4301,4301,1,7264>>, <<5024,5103,1,38864>>,
    <<5104,5109,1,8>>, <<7312,7354,1,-3008>>, <<7357,7359,1,-3008>>,
    <<7680,7828,2,1>>, <<7838,7838,1,-7615>>, <<7840,7934,2,1>>,
    <<7944,7951,1,-8>>, <<7960,7965,1,-8>>, <<7976,7983,1,-8>>,
    <<7992,7999,1,-8>>, <<8008,8013,1,-8>>, <<8025,8031,2,-8>>,
    <<8040,8047,1,-8>>, <<8072,8079,1,-8>>, <<8088,8095,1,-8>>,
    <<8104,8111,1,-8>>, <<8120,8121,1,-8>>, <<8122,8123,1,-74>>,
    <<8124,8124,1,-9>>, <<8136,8139,1,-86>>, <<8140,8140,1,-9>>,
    <<8152,8153,1,-8>>, <<8154,8155,1,-100>>, <<8168,8169,1,-8>>,
    <<8170,8171,1,-112>>, <<8172,8172,1,-7>>, <<8184,8185,1,-128>>,
    <<8186,8187,1,-126>>, <<8188,8188,1,-9>>, <<8486,8486,1,-7517>>,
    <<8490,8490,1,-8383>>, <<8491,8491,1,-8262>>, <<8498,8498,1,28>>,
    <<8544,8559,1,16>>, <<8579,8579,1,1>>, <<9398,9423,1,26>>,
    <<11264,11311,1,48>>, <<11360,11360,1,1>>, <<11362,11362,1,-10743>>,
    <<11363,11363,1,-3814>>, <<11364,11364,1,-10727>>, <<11367,11371,2,1>>,
    <<11373,11373,1,-10780>>, <<11374,11374,1,-10749>>,
    <<11375,11375,1,-10783>>, <<11376,11376,1,-10782>>, <<11378,11378,1,1>>,
    <<11381,11381,1,1>>, <<11390,11391,1,-10815>>, <<11392,11490,2,1>>,
    <<11499,11501,2,1>>, <<11506,11506,1,1>>, <<42560,42604,2,1>>,
    <<42624,42650,2,1>>, <<42786,42798,2,1>>, <<42802,42862,2,1>>,
    <<42873,42875,2,1>>, <<42877,42877,1,-35332>>, <<42878,42886,2,1>>,
    <<42891,42891,1,1>>, <<42893,42893,1,-42280>>, <<42896,42898,2,1>>,
    <<42902,42920,2,1>>, <<42922,42922,1,-42308>>, <<42923,42923,1,-42319>>,
    <<42924,42924,1,-42315>>, <<42925,42925,1,-42305>>,
    <<42926,42926,1,-42308>>, <<42928,42928,1,-42258>>,
    <<42929,42929,1,-42282>>, <<42930,42930,1,-42261>>, <<42931,42931,1,928>>,
    <<42932,42946,2,1>>, <<42948,42948,1,-48>>, <<42949,42949,1,-42307>>,
    <<42950,42950,1,-35384>>, <<42951,42953,2,1>>, <<42960,42960,1,1>>,
    <<42966,42968,2,1>>, <<42997,42997,1,1>>, <<65313,65338,1,32>>,
    <<66560,66599,1,40>>, <<66736,66771,1,40>>, <<66928,66938,1,39>>,
    <<66940,66954,1,39>>, <<66956,66962,1,39>>, <<66964,66965,1,39>>,
    <<68736,68786,1,64>>, <<71840,71871,1,32>>, <<93760,93791,1,32>>,
    <<125184,125217,1,34>>
    >>

(* Runs <<first, last>> of the code points from 128 up that are cased      *)
(* letters and not case-ignorable.                                         *)
CasedRuns ==
    <<
    <<170,170>>, <<181,181>>, <<186,186>>, <<192,214>>,
    <<216,246>>, <<248,442>>, <<444,447>>, <<452,659>>, <<661,687>>,
    <<880,883>>, <<886,887>>, <<891,893>>, <<895,895>>, <<902,902>>,
    <<904,906>>, <<908,908>>, <<910,929>>, <<931,1013>>, <<1015,1153>>,
    <<1162,1327>>, <<1329,1366>>, <<1376,1416>>, <<4256,4293>>, <<4295,4295>>,
    <<4301,4301>>, <<4304,4346>>, <<4349,4351>>, <<5024,5109>>, <<5112,5117>>,
    <<7296,7304>>, <<7312,7354>>, <<7357,7359>>, <<7424,7467>>, <<7531,7543>>,
    <<7545,7578>>, <<7680,7957>>, <<7960,7965>>, <<7968,8005>>, <<8008,8013>>,
    <<8016,8023>>, <<8025,8025>>, <<8027,8027>>, <<8029,8029>>, <<8031,8061>>,
    <<8064,8116>>, <<8118,8124>>, <<8126,8126>>, <<8130,8132>>, <<8134,8140>>,
    <<8144,8147>>, <<8150,8155>>, <<8160,8172>>, <<8178,8180>>, <<8182,8188>>,
    <<8450,8450>>, <<8455,8455>>, <<8458,8467>>, <<8469,8469>>, <<8473,8477>>,
    <<8484,8484>>, <<8486,8486>>, <<8488,8488>>, <<8490,8493>>, <<8495,8500>>,
    <<8505,8505>>, <<8508,8511>>, <<8517,8521>>, <<8526,8526>>, <<8544,8575>>,
    <<8579,8580>>, <<9398,9449>>, <<11264,11387>>, <<11390,11492>>,
    <<11499,11502>>, <<11506,11507>>, <<11520,11557>>, <<11559,11559>>,
    <<11565,11565>>, <<42560,42605>>, <<42624,42651>>, <<42786,42863>>,
    <<42865,42887>>, <<42891,42894>>, <<42896,42954>>, <<42960,42961>>,
    <<42963,42963>>, <<42965,42969>>, <<42997,42998>>, <<43002,43002>>,
    <<43824,43866>>, <<43872,43880>>, <<43888,43967>>, <<64256,64262>>,
    <<64275,64279>>, <<65313,65338>>, <<65345,65370>>, <<66560,66639>>,
    <<66736,66771>>, <<66776,66811>>, <<66928,66938>>, <<66940,66954>>,
    <<66956,66962>>, <<66964,66965>>, <<66967,66977>>, <<66979,66993>>,
    <<66995,67001>>, <<67003,67004>>, <<68736,68786>>, <<68800,68850>>,
    <<71840,71903>>, <<93760,93823>>, <<119808,119892>>, <<119894,119964>>,
    <<119966,119967>>, <<119970,119970>>, <<119973,119974>>,
    <<119977,119980>>, <<119982,119993>>, <<119995,119995>>,
    <<119997,120003>>, <<120005,120069>>, <<120071,120074>>,
    <<120077,120084>>, <<120086,120092>>, <<120094,120121>>,
    <<120123,120126>>, <<120128,120132>>, <<120134,120134>>,
    <<120138,120144>>, <<120146,120485>>, <<120488,120512>>,
    <<120514,120538>>, <<120540,120570>>, <<120572,120596>>,
    <<120598,120628>>, <<120630,120654>>, <<120656,120686>>,
    <<120688,120712>>, <<120714,120744>>, <<120746,120770>>,
    <<120772,120779>>, <<122624,122633>>, <<122635,122654>>,
    <<125184,125251>>, <<127280,127305>>, <<127312,127337>>, <<127344,127369>>
    >>

(* Runs <<first, last>> of the case-ignorable code points from 128 up *)
IgnorableRuns ==
    <<
    <<168,168>>,
    <<173,173>>, <<175,175>>, <<180,180>>, <<183,184>>, <<688,879>>,
    <<884,885>>, <<890,890>>, <<900,901>>, <<903,903>>, <<1155,1161>>,
    <<1369,1369>>, <<1375,1375>>, <<1425,1469>>, <<1471,1471>>, <<1473,1474>>,
    <<1476,1477>>, <<1479,1479>>, <<1524,1524>>, <<1536,1541>>, <<1552,1562>>,
    <<1564,1564>>, <<1600,1600>>, <<1611,1631>>, <<1648,1648>>, <<1750,1757>>,
    <<1759,1768>>, <<1770,1773>>, <<1807,1807>>, <<1809,1809>>, <<1840,1866>>,
    <<1958,1968>>, <<2027,2037>>, <<2042,2042>>, <<2045,2045>>, <<2070,2093>>,
    <<2137,2139>>, <<2184,2184>>, <<2192,2193>>, <<2200,2207>>, <<2249,2306>>,
    <<2362,2362>>, <<2364,2364>>, <<2369,2376>>, <<2381,2381>>, <<2385,2391>>,
    <<2402,2403>>, <<2417,2417>>, <<2433,2433>>, <<2492,2492>>, <<2497,2500>>,
    <<2509,2509>>, <<2530,2531>>, <<2558,2558>>, <<2561,2562>>, <<2620,2620>>,
    <<2625,2626>>, <<2631,2632>>, <<2635,2637>>, <<2641,2641>>, <<2672,2673>>,
    <<2677,2677>>, <<2689,2690>>, <<2748,2748>>, <<2753,2757>>, <<2759,2760>>,
    <<2765,2765>>, <<2786,2787>>, <<2810,2815>>, <<2817,2817>>, <<2876,2876>>,
    <<2879,2879>>, <<2881,2884>>, <<2893,2893>>, <<2901,2902>>, <<2914,2915>>,
    <<2946,2946>>, <<3008,3008>>, <<3021,3021>>, <<3072,3072>>, <<3076,3076>>,
    <<3132,3132>>, <<3134,3136>>, <<3142,3144>>, <<3146,3149>>, <<3157,3158>>,
    <<3170,3171>>, <<3201,3201>>, <<3260,3260>>, <<3263,3263>>, <<3270,3270>>,
    <<3276,3277>>, <<3298,3299>>, <<3328,3329>>, <<3387,3388>>, <<3393,3396>>,
    <<3405,3405>>, <<3426,3427>>, <<3457,3457>>, <<3530,3530>>, <<3538,3540>>,
    <<3542,3542>>, <<3633,3633>>, <<3636,3642>>, <<3654,3662>>, <<3761,3761>>,
    <<3764,3772>>, <<3782,3782>>, <<3784,3789>>, <<3864,3865>>, <<3893,3893>>,
    <<3895,3895>>, <<3897,3897>>, <<3953,3966>>, <<3968,3972>>, <<3974,3975>>,
    <<3981,3991>>, <<3993,4028>>, <<4038,4038>>, <<4141,4144>>, <<4146,4151>>,
    <<4153,4154>>, <<4157,4158>>, <<4184,4185>>, <<4190,4192>>, <<4209,4212>>,
    <<4226,4226>>, <<4229,4230>>, <<4237,4237>>, <<4253,4253>>, <<4348,4348>>,
    <<4957,4959>>, <<5906,5908>>, <<5938,5939>>, <<5970,5971>>, <<6002,6003>>,
    <<6068,6069>>, <<6071,6077>>, <<6086,6086>>, <<6089,6099>>, <<6103,6103>>,
    <<6109,6109>>, <<6155,6159>>, <<6211,6211>>, <<6277,6278>>, <<6313,6313>>,
    <<6432,6434>>, <<6439,6440>>, <<6450,6450>>, <<6457,6459>>, <<6679,6680>>,
    <<6683,6683>>, <<6742,6742>>, <<6744,6750>>, <<6752,6752>>, <<6754,6754>>,
    <<6757,6764>>, <<6771,6780>>, <<6783,6783>>, <<6823,6823>>, <<6832,6862>>,
    <<6912,6915>>, <<6964,6964>>, <<6966,6970>>, <<6972,6972>>, <<6978,6978>>,
    <<7019,7027>>, <<7040,7041>>, <<7074,7077>>, <<7080,7081>>, <<7083,7085>>,
    <<7142,7142>>, <<7144,7145>>, <<7149,7149>>, <<7151,7153>>, <<7212,7219>>,
    <<7222,7223>>, <<7288,7293>>, <<7376,7378>>, <<7380,7392>>, <<7394,7400>>,
    <<7405,7405>>, <<7412,7412>>, <<7416,7417>>, <<7468,7530>>, <<7544,7544>>,
    <<7579,7679>>, <<8125,8125>>, <<8127,8129>>, <<8141,8143>>, <<8157,8159>>,
    <<8173,8175>>, <<8189,8190>>, <<8203,8207>>, <<8216,8217>>, <<8228,8228>>,
    <<8231,8231>>, <<8234,8238>>, <<8288,8292>>, <<8294,8303>>, <<8305,8305>>,
    <<8319,8319>>, <<8336,8348>>, <<8400,8432>>, <<11388,11389>>,
    <<11503,11505>>, <<11631,11631>>, <<11647,11647>>, <<11744,11775>>,
    <<11823,11823>>, <<12293,12293>>, <<12330,12333>>, <<12337,12341>>,
    <<12347,12347>>, <<12441,12446>>, <<12540,12542>>, <<40981,40981>>,
    <<42232,42237>>, <<42508,42508>>, <<42607,42610>>, <<42612,42621>>,
    <<42623,42623>>, <<42652,42655>>, <<42736,42737>>, <<42752,42785>>,
    <<42864,42864>>, <<42888,42890>>, <<42994,42996>>, <<43000,43001>>,
    <<43010,43010>>, <<43014,43014>>, <<43019,43019>>, <<43045,43046>>,
    <<43052,43052>>, <<43204,43205>>, <<43232,43249>>, <<43263,43263>>,
    <<43302,43309>>, <<43335,43345>>, <<43392,43394>>, <<43443,43443>>,
    <<43446,43449>>, <<43452,43453>>, <<43471,43471>>, <<43493,43494>>,
    <<43561,43566>>, <<43569,43570>>, <<43573,43574>>, <<43587,43587>>,
    <<43596,43596>>, <<43632,43632>>, <<43644,43644>>, <<43696,43696>>,
    <<43698,43700>>, <<43703,43704>>, <<43710,43711>>, <<43713,43713>>,
    <<43741,43741>>, <<43756,43757>>, <<43763,43764>>, <<43766,43766>>,
    <<43867,43871>>, <<43881,43883>>, <<44005,44005>>, <<44008,44008>>,
    <<44013,44013>>, <<64286,64286>>, <<64434,64450>>, <<65024,65039>>,
    <<65043,65043>>, <<65056,65071>>, <<65106,65106>>, <<65109,65109>>,
    <<65279,65279>>, <<65287,65287>>, <<65294,65294>>, <<65306,65306>>,
    <<65342,65342>>, <<65344,65344>>, <<65392,65392>>, <<65438,65439>>,
    <<65507,65507>>, <<65529,65531>>, <<66045,66045>>, <<66272,66272>>,
    <<66422,66426>>, <<67456,67461>>, <<67463,67504>>, <<67506,67514>>,
    <<68097,68099>>, <<68101,68102>>, <<68108,68111>>, <<68152,68154>>,
    <<68159,68159>>, <<68325,68326>>, <<68900,68903>>, <<69291,69292>>,
    <<69446,69456>>, <<69506,69509>>, <<69633,69633>>, <<69688,69702>>,
    <<69744,69744>>, <<69747,69748>>, <<69759,69761>>, <<69811,69814>>,
    <<69817,69818>>, <<69821,69821>>, <<69826,69826>>, <<69837,69837>>,
    <<69888,69890>>, <<69927,69931>>, <<69933,69940>>, <<70003,70003>>,
    <<70016,70017>>, <<70070,70078>>, <<70089,70092>>, <<70095,70095>>,
    <<70191,70193>>, <<70196,70196>>, <<70198,70199>>, <<70206,70206>>,
    <<70367,70367>>, <<70371,70378>>, <<70400,70401>>, <<70459,70460>>,
    <<70464,70464>>, <<70502,70508>>, <<70512,70516>>, <<70712,70719>>,
    <<70722,70724>>, <<70726,70726>>, <<70750,70750>>, <<70835,70840>>,
    <<70842,70842>>, <<70847,70848>>, <<70850,70851>>, <<71090,71093>>,
    <<71100,71101>>, <<71103,71104>>, <<71132,71133>>, <<71219,71226>>,
    <<71229,71229>>, <<71231,71232>>, <<71339,71339>>, <<71341,71341>>,
    <<71344,71349>>, <<71351,71351>>, <<71453,71455>>, <<71458,71461>>,
    <<71463,71467>>, <<71727,71735>>, <<71737,71738>>, <<71995,71996>>,
    <<71998,71998>>, <<72003,72003>>, <<72148,72151>>, <<72154,72155>>,
    <<72160,72160>>, <<72193,72202>>, <<72243,72248>>, <<72251,72254>>,
    <<72263,72263>>, <<72273,72278>>, <<72281,72283>>, <<72330,72342>>,
    <<72344,72345>>, <<72752,72758>>, <<72760,72765>>, <<72767,72767>>,
    <<72850,72871>>, <<72874,72880>>, <<72882,72883>>, <<72885,72886>>,
    <<73009,73014>>, <<73018,73018>>, <<73020,73021>>, <<73023,73029>>,
    <<73031,73031>>, <<73104,73105>>, <<73109,73109>>, <<73111,73111>>,
    <<73459,73460>>, <<78896,78904>>, <<92912,92916>>, <<92976,92982>>,
    <<92992,92995>>, <<94031,94031>>, <<94095,94111>>, <<94176,94177>>,
    <<94179,94180>>, <<110576,110579>>, <<110581,110587>>, <<110589,110590>>,
    <<113821,113822>>, <<113824,113827>>, <<118528,118573>>,
    <<118576,118598>>, <<119143,119145>>, <<119155,119170>>,
    <<119173,119179>>, <<119210,119213>>, <<119362,119364>>,
    <<121344,121398>>, <<121403,121452>>, <<121461,121461>>,
    <<121476,121476>>, <<121499,121503>>, <<121505,121519>>,
    <<122880,122886>>, <<122888,122904>>, <<122907,122913>>,
    <<122915,122916>>, <<122918,122922>>, <<123184,123197>>,
    <<123566,123566>>, <<123628,123631>>, <<125136,125142>>,
    <<125252,125259>>, <<127995,127999>>, <<917505,917505>>,
    <<917536,917631>>, <<917760,917999>>
    >>

InRuns(c, runs) == \E k \in 1..Len(runs) : runs[k][1] <= c /\ c <= runs[k][2]

(* c is a cased letter and not case-ignorable: A-Z and a-z, the engine's   *)
(* own, and the table                                                      *)
IsCased(e, c) ==
    IF c < 128 THEN (65 <= c /\ c <= 90) \/ (97 <= c /\ c <= 122)
    ELSE \/ c \in e.cased
         \/ c \notin e.uncased /\ InRuns(c, CasedRuns)

(* c is case-ignorable: the ASCII characters ' . : ^ `, the engine's own,  *)
(* and the table                                                           *)
IsCaseIgnorable(e, c) ==
    IF c < 128 THEN c \in {39, 46, 58, 94, 96}
    ELSE \/ c \in e.ignorable
         \/ c \notin e.unignorable /\ InRuns(c, IgnorableRuns)

(* The lower case of one code point, without regard to its context: A-Z,   *)
(* the engine's own mappings, U+0130, which becomes two code points, and   *)
(* the table.                                                              *)
LowerOf(e, c) ==
    IF c < 128 THEN (IF 65 <= c /\ c <= 90 THEN <<c + 32>> ELSE <<c>>)
    ELSE IF c \in DOMAIN e.lower THEN e.lower[c]
    ELSE IF c = 304 THEN <<105, 775>>
    ELSE IF \E k \in 1..Len(LowerRanges) :
                /\ LowerRanges[k][1] <= c
                /\ c <= LowerRanges[k][2]
                /\ (c - LowerRanges[k][1]) % LowerRanges[k][3] = 0
         THEN LET k == CHOOSE k \in 1..Len(LowerRanges) :
                          /\ LowerRanges[k][1] <= c
                          /\ c <= LowerRanges[k][2]
                          /\ (c - LowerRanges[k][1]) % LowerRanges[k][3] = 0
              IN  <<c + LowerRanges[k][4]>>
         ELSE <<c>>

(* The capital sigma at position k is final: the nearest code point before *)
(* it that is not case-ignorable is a cased letter, and the nearest one    *)
(* after it, if any, is not.                                               *)
FinalSigma(e, s, k) ==
    LET before == {j \in 1..(k - 1) : ~IsCaseIgnorable(e, s[j])}
        after == {j \in (k + 1)..Len(s) : ~IsCaseIgnorable(e, s[j])}
    IN  /\ before # {}
        /\ IsCased(e, s[CHOOSE j \in before : \A m \in before : m <= j])
        /\ \/ after = {}
           \/ ~IsCased(e, s[CHOOSE j \in after : \A m \in after : j <= m])

(* String.prototype.toLowerCase on an engine e.  In a string of ASCII      *)
(* characters every code point has one code point as its lower case, so    *)
(* the result is written position by position; otherwise it is put         *)
(* together from the lower cases of the code points, a final capital sigma *)
(* giving the final small sigma.                                           *)
toLowerCase(e, s) ==
    IF \A k \in 1..Len(s) : s[k] < 128
    THEN [k \in 1..Len(s) |-> LowerOf(e, s[k])[1]]
    ELSE LET low[k \in 0..Len(s)] ==
                 IF k = 0 THEN <<>>
                 ELSE low[k - 1] \o
                          (IF s[k] = 931 /\ FinalSigma(e, s, k) THEN <<962>>
                           ELSE LowerOf(e, s[k]))
         IN  low[Len(s)]

(* The engines a run may be on, as far as the code points of the keys of   *)
(* the model go: with the data of Unicode 14 (and 15), of Unicode 16 and   *)
(* of Unicode 17.  U+A7CB is unassigned in Unicode 14 and a capital letter *)
(* with the lower case U+0264 from Unicode 16 on; U+0295 is a cased letter *)
(* up to Unicode 16 and not in Unicode 17.                                 *)
Unicode14 ==
    [lower |-> [c \in {} |-> <<c>>], cased |-> {}, uncased |-> {},
     ignorable |-> {}, unignorable |-> {}]

Unicode16 ==
    [lower |-> [c \in {42955} |-> <<612>>], cased |-> {42955}, uncased |-> {},
     ignorable |-> {}, unignorable |-> {}]

Unicode17 ==
    [lower |-> [c \in {42955} |-> <<612>>], cased |-> {42955}, uncased |-> {661},
     ignorable |-> {}, unignorable |-> {}]

Engines == {Unicode14, Unicode16, Unicode17}

(* `${n}` for a non-negative integer n below 10^21, written as the         *)
(* sequence of its decimal digits: the characters of the digits            *)
NumberToString(n) == [k \in 1..Len(n) |-> 48 + n[k]]

endsWith(s, suf) ==
    /\ Len(s) >= Len(suf)
    /\ SubSeq(s, Len(s) - Len(suf) + 1, Len(s)) = suf

startsWith(s, pre) ==
    /\ Len(s) >= Len(pre)
    /\ SubSeq(s, 1, Len(pre)) = pre

imagesPrefix == Str(<<"i","m","a","g","e","s","/">>)

dotJpg == Str(<<".","j","p","g">>)
dotJpeg == Str(<<".","j","p","e","g">>)
dotPng == Str(<<".","p","n","g">>)
dotGif == Str(<<".","g","i","f">>)
dotWebp == Str(<<".","w","e","b","p">>)

----------------------------------------------------------------------------
(* loadImages: the pure parts *)

(* Mutant: the filter without toLowerCase *)
IsImageFileCaseSensitive(item) ==
    LET path == item.path
    IN  \/ endsWith(path, dotJpg)
        \/ endsWith(path, dotJpeg)
        \/ endsWith(path, dotPng)
        \/ endsWith(path, dotGif)
        \/ endsWith(path, dotWebp)

IsImageFile(item) ==
    \E path \in {toLowerCase(engine, item.path)} :
        \/ endsWith(path, dotJpg)
        \/ endsWith(path, dotJpeg)
        \/ endsWith(path, dotPng)
        \/ endsWith(path, dotGif)
        \/ endsWith(path, dotWebp)

FilterImages(items) == SelectSeq(items, IsImageFile)

ImageItem(item, url) ==
    [key |-> item.path, url |-> url, size |-> item.size,
     lastModified |-> item.lastModified]

(* Mutant: the accumulator starts from the records already shown *)
InitialAllImagesStale == images

InitialAllImages == <<>>

(* Mutant: one accumulator shared by all invocations *)
PushAllShared(all, i, recs) == [j \in DOMAIN all |-> all[j] \o recs]

PushAll(all, i, recs) == [all EXCEPT ![i] = @ \o recs]

(* Mutant: the loop stops after the first page *)
HasNextPageNever(tok) == FALSE

(* !!result.nextToken: the token is present and not the empty string *)
HasNextPage(tok) == tok # undefined /\ tok[1] # <<>>

(* Mutant: the cursor is never advanced *)
NextCursorLost(tok) == undefined

NextCursor(tok) == tok

(* Mutant: the catch block rethrows *)
LoadOutcomeRethrow(threw) == IF threw THEN "rejected" ELSE "fulfilled"

LoadOutcome(threw) == "fulfilled"

(* Mutant: the catch block publishes what was gathered *)
ImagesAfterCatchPartial(i) == allImages[i]

ImagesAfterCatch(i) == images

----------------------------------------------------------------------------
(* The storage service behind aws-amplify/storage *)

(* The store's continuation token for an offset: its decimal digits *)
TokenOf(off) ==
    IF off < 10 THEN <<48 + off>> ELSE <<48 + (off \div 10), 48 + (off % 10)>>

Offset(tok) ==
    IF tok = undefined \/ tok[1] = <<>> THEN 0
    ELSE IF Len(tok[1]) = 1 THEN tok[1][1] - 48
    ELSE 10 * (tok[1][1] - 48) + (tok[1][2] - 48)

Remaining(b, tok) == IF Len(b) > Offset(tok) THEN Len(b) - Offset(tok) ELSE 0

(* A page holds at most size items, at most MaxPageLen items, and ends at  *)
(* the next cut of the listing.                                            *)
PageLen(b, cs, tok, size) ==
    LET off == Offset(tok)
        ahead == {c \in cs : c > off}
        toCut == IF ahead = {} THEN MaxPageLen
                 ELSE (CHOOSE c \in ahead : \A d \in ahead : c <= d) - off
    IN  Min(Remaining(b, tok), Min(size, Min(MaxPageLen, toCut)))

ListPage(b, cs, tok, size) ==
    LET off == Offset(tok)
        n == PageLen(b, cs, tok, size)
    IN  [items |-> SubSeq(b, off + 1, off + n),
         nextToken |-> IF off + n < Len(b) THEN Some(TokenOf(off + n))
                       ELSE undefined]

(* A signed URL is minted afresh by every getUrl call; the call is named   *)
(* by the invocation that made it.                                         *)
SignedUrl(path, ttl, call) == [path |-> path, expires |-> ttl, sig |-> call]

Put(b, obj) ==
    IF \E k \in 1..Len(b) : b[k].path = obj.path
    THEN [k \in 1..Len(b) |-> IF b[k].path = obj.path THEN obj ELSE b[k]]
    ELSE Append(b, obj)

RemovePath(b, path) == SelectSeq(b, LAMBDA o : o.path # path)

----------------------------------------------------------------------------
(* The buckets a run may start from and the files a user may pick *)

Obj(name, size, lastModified) ==
    [path |-> imagesPrefix \o name, size |-> size, lastModified |-> lastModified]

o1 == Obj(Str(<<"1",".","P","N","G">>), Some(10), Some(0))
o2 == Obj(Str(<<"2",".","t","x","t">>), Some(20), Some(0))
o3 == Obj(Str(<<"3",".","j","p","e","g">>), Some(30), Some(0))
o4 == Obj(<<201>> \o Str(<<".","G","i","F">>), Some(40), Some(0))
o5 == Obj(Str(<<"b",".","w","e","b","p",".","b","a","k">>), Some(50), Some(0))
o6 == Obj(Str(<<"c",".","W","E","B","P">>), Some(60), undefined)
o7 == Obj(Str(<<"j","p","g">>), Some(70), Some(0))
o8 == Obj(<<661, 931>> \o Str(<<"-">>) \o <<42955>> \o Str(<<".","J","p","g">>),
          undefined, Some(0))
o9 == Obj(Str(<<"a",".","G">>) \o <<304>> \o Str(<<"F">>), Some(90), Some(0))

InitialBuckets == {<<>>, <<o1, o2, o3>>, <<o4>>, <<o6>>, <<o5, o7, o9>>, <<o8>>}

(* The engines to run a bucket on: all of them when they lower-case some   *)
(* key of the bucket differently, and one, standing for all, when they     *)
(* agree on every key (the names of uploaded files are ASCII, which every  *)
(* engine lower-cases alike).                                              *)
EnginesFor(b) ==
    IF \A o \in Range(b) : \A e, f \in Engines :
           toLowerCase(e, o.path) = toLowerCase(f, o.path)
    THEN {Unicode17}
    ELSE Engines

imageSlash == Str(<<"i","m","a","g","e","/">>)

Files ==
    {[name |-> Str(<<"n",".","p","n","g">>),
      type |-> imageSlash \o Str(<<"p","n","g">>), size |-> 11],
     [name |-> Str(<<"t",".","t","x","t">>),
      type |-> Str(<<"t","e","x","t","/","p">>), size |-> 13]}

(* Date.now(): the readings the clock may give, each a number of          *)
(* milliseconds written as the sequence of its decimal digits.  A call     *)
(* gets any of them, whatever the calls before it got.                     *)
DateNow ==
    {<<1,7,9,3,2,7,3,2,5,5,4,9,0>>, <<1,7,9,3,2,7,3,2,5,5,5,1,1>>}

UploadPath(file, timestamp) ==
    imagesPrefix \o NumberToString(timestamp) \o Str(<<"-">>) \o file.name

NoOp == [kind |-> "none", pc |-> "idle", path |-> <<>>, data |-> undefined,
         load |-> 0, ver |-> 0]

----------------------------------------------------------------------------
(* Helpers over the state *)

InFlight(i) == pc[i] \in {"list", "urls"}

CallerOf(i) ==
    IF \E h \in Ops : ops[h].load = i
    THEN CHOOSE h \in Ops : ops[h].load = i
    ELSE 0

(* invocations that handlers waiting on storage will still start *)
Reserved == Cardinality({h \in Ops : ops[h].pc = "mutating"})

----------------------------------------------------------------------------
Init ==
    /\ bucket \in InitialBuckets
    /\ cuts \in SUBSET (1..(Len(bucket) - 1))
    /\ engine \in EnginesFor(bucket)
    /\ ver = 0
    /\ images = <<>>
    /\ loading = TRUE
    /\ uploading = FALSE
    /\ lastAlert = "none"
    /\ nInv = 0
    /\ pc = [i \in Inv |-> "idle"]
    /\ nextToken = [i \in Inv |-> undefined]
    /\ allImages = [i \in Inv |-> <<>>]
    /\ imageFiles = [i \in Inv |-> <<>>]
    /\ urls = [i \in Inv |-> <<>>]
    /\ pageToken = [i \in Inv |-> undefined]
    /\ listing = [i \in Inv |-> undefined]
    /\ reqs = [i \in Inv |-> <<>>]
    /\ resps = [i \in Inv |-> <<>>]
    /\ got = [i \in Inv |-> <<>>]
    /\ verStart = [i \in Inv |-> 0]
    /\ pubOrder = <<>>
    /\ nOps = 0
    /\ ops = [h \in Ops |-> NoOp]

----------------------------------------------------------------------------
(* loadImages *)

(* Lines 22-37: the synchronous start of an invocation, up to the first    *)
(* await list(...).  The caller sets ops, uploading, lastAlert and the     *)
(* storage variables.                                                      *)
StartLoad(i) ==
    /\ loading' = TRUE
    /\ nInv' = i
    /\ pc' = [pc EXCEPT ![i] = "list"]
    /\ allImages' = [allImages EXCEPT ![i] = InitialAllImages]
    /\ nextToken' = [nextToken EXCEPT ![i] = undefined]
    /\ reqs' = [reqs EXCEPT ![i] = <<undefined>>]
    /\ verStart' = [verStart EXCEPT ![i] = ver']
    /\ UNCHANGED <<images, pubOrder, loadVars>>

(* Lines 81-83 and the await of the caller (lines 121-131, 144-148): the   *)
(* finally block, the settlement of the promise loadImages returned and    *)
(* the continuation of the handler that awaits it.                         *)
Settle(i, threw) ==
    LET h == CallerOf(i)
        out == LoadOutcome(threw)
        shown == IF threw THEN "loadFailed" ELSE lastAlert
    IN  /\ loading' = FALSE
        /\ IF h = 0
           THEN /\ ops' = ops
                /\ uploading' = uploading
                /\ lastAlert' = shown
           ELSE /\ ops' = [ops EXCEPT ![h].pc =
                              IF out = "fulfilled" THEN "done" ELSE "caught"]
                /\ uploading' = IF ops[h].kind = "upload" THEN FALSE ELSE uploading
                /\ lastAlert' = IF out = "fulfilled" THEN shown
                                ELSE IF ops[h].kind = "upload" THEN "uploadFailed"
                                ELSE "deleteFailed"

(* Lines 70-77: the page's records are pushed, then either the next page   *)
(* is requested or the result is published.                                *)
AfterPage(i, recs, tok) ==
    /\ allImages' = PushAll(allImages, i, recs)
    /\ IF HasNextPage(tok)
       THEN /\ nextToken' = [nextToken EXCEPT ![i] = NextCursor(tok)]
            /\ reqs' = [reqs EXCEPT ![i] = Append(@, nextToken'[i])]
            /\ pc' = [pc EXCEPT ![i] = "list"]
            /\ UNCHANGED <<images, pubOrder, loading, ops, uploading, lastAlert>>
       ELSE /\ nextToken' = [nextToken EXCEPT ![i] = NextCursor(tok)]
            /\ images' = allImages'[i]
            /\ pubOrder' = Append(pubOrder, i)
            /\ pc' = [pc EXCEPT ![i] = "done"]
            /\ Settle(i, FALSE)
            /\ UNCHANGED reqs

(* Lines 78-83: a rejected list or getUrl lands in the catch block *)
Catch(i) ==
    /\ pc' = [pc EXCEPT ![i] = "failed"]
    /\ images' = ImagesAfterCatch(i)
    /\ Settle(i, TRUE)
    /\ UNCHANGED <<pubOrder, nextToken, allImages, reqs>>

(* Lines 151-153: the mount effect *)
Mount ==
    /\ nInv = 0
    /\ UNCHANGED <<bucket, cuts, engine, ver, uploading, lastAlert, nOps, ops>>
    /\ StartLoad(1)

(* Line 208: the refresh button, disabled while loading *)
Refresh ==
    /\ nInv >= 1
    /\ ~loading
    /\ nInv + Reserved < MaxLoads
    /\ UNCHANGED <<bucket, cuts, engine, ver, uploading, lastAlert, nOps, ops>>
    /\ StartLoad(nInv + 1)

(* Lines 31-37: the store answers the list request that is out, from the  *)
(* bucket as it is now; the answer is on its way to the component          *)
ListAnswer(i) ==
    /\ pc[i] = "list"
    /\ listing[i] = undefined
    /\ listing' = [listing EXCEPT ![i] =
                       Some(ListPage(bucket, cuts, nextToken[i], pageSize))]
    /\ UNCHANGED <<bucket, cuts, engine, ver, images, loading, uploading, lastAlert,
                   nInv, pc, nextToken, allImages, imageFiles, urls, pageToken,
                   reqs, resps, got, verStart, pubOrder, nOps, ops>>

(* Lines 31-68: the answer to the list request reaches the component *)
ListOk(i) ==
    /\ pc[i] = "list"
    /\ listing[i] # undefined
    /\ listing' = [listing EXCEPT ![i] = undefined]
    /\ \E result \in {listing[i][1]} :
       \E files \in {FilterImages(result.items)} :
           /\ resps' = [resps EXCEPT ![i] = Append(@, result.nextToken)]
           /\ got' = [got EXCEPT ![i] = @ \o [k \in 1..Len(files) |-> files[k].path]]
           /\ IF files = <<>>
              THEN /\ AfterPage(i, <<>>, result.nextToken)
                   /\ UNCHANGED <<imageFiles, urls, pageToken>>
              ELSE /\ imageFiles' = [imageFiles EXCEPT ![i] = files]
                   /\ urls' = [urls EXCEPT ![i] = [k \in 1..Len(files) |-> undefined]]
                   /\ pageToken' = [pageToken EXCEPT ![i] = result.nextToken]
                   /\ pc' = [pc EXCEPT ![i] = "urls"]
                   /\ UNCHANGED <<images, pubOrder, loading, ops, uploading,
                                  lastAlert, nextToken, allImages, reqs>>
    /\ UNCHANGED <<bucket, cuts, engine, ver, nInv, verStart, nOps>>

(* Line 31: the list call rejects, whether the store has answered (the     *)
(* answer was lost) or not                                                 *)
ListFail(i) ==
    /\ pc[i] = "list"
    /\ Catch(i)
    /\ listing' = [listing EXCEPT ![i] = undefined]
    /\ UNCHANGED <<bucket, cuts, engine, ver, nInv, verStart, nOps, imageFiles, urls,
                   pageToken, resps, got>>

(* Lines 52-68: the getUrl of the k-th retained item resolves *)
UrlOk(i, k) ==
    /\ pc[i] = "urls"
    /\ k \in 1..Len(urls[i])
    /\ urls[i][k] = undefined
    /\ LET u == [urls[i] EXCEPT ![k] =
                    Some(SignedUrl(imageFiles[i][k].path, expiresIn, i))]
       IN  IF \A j \in 1..Len(u) : u[j] # undefined
           THEN /\ AfterPage(i, [j \in 1..Len(u) |-> ImageItem(imageFiles[i][j], u[j][1])],
                             pageToken[i])
                /\ imageFiles' = [imageFiles EXCEPT ![i] = <<>>]
                /\ urls' = [urls EXCEPT ![i] = <<>>]
                /\ pageToken' = [pageToken EXCEPT ![i] = undefined]
           ELSE /\ urls' = [urls EXCEPT ![i] = u]
                /\ UNCHANGED <<imageFiles, pageToken, pc, images, pubOrder, loading,
                               ops, uploading, lastAlert, nextToken, allImages, reqs>>
    /\ UNCHANGED <<bucket, cuts, engine, ver, nInv, verStart, nOps, listing, resps, got>>

(* Lines 52-54: the getUrl of the k-th retained item rejects, and so does  *)
(* Promise.all                                                             *)
UrlFail(i, k) ==
    /\ pc[i] = "urls"
    /\ k \in 1..Len(urls[i])
    /\ urls[i][k] = undefined
    /\ Catch(i)
    /\ imageFiles' = [imageFiles EXCEPT ![i] = <<>>]
    /\ urls' = [urls EXCEPT ![i] = <<>>]
    /\ pageToken' = [pageToken EXCEPT ![i] = undefined]
    /\ UNCHANGED <<bucket, cuts, engine, ver, nInv, verStart, nOps, listing, resps, got>>

----------------------------------------------------------------------------
(* handleFileUpload *)

(* Lines 88-94: a file of another type is refused *)
UploadRefused(file) ==
    /\ nInv >= 1
    /\ ~uploading
    /\ nOps < MaxOps
    /\ ~startsWith(file.type, imageSlash)
    /\ lastAlert' = "imagesOnly"
    /\ nOps' = nOps + 1
    /\ ops' = [ops EXCEPT ![nOps + 1] = [NoOp EXCEPT !.kind = "upload", !.pc = "refused"]]
    /\ UNCHANGED <<bucket, cuts, engine, ver, images, loading, uploading, nInv, pc, nextToken,
                   allImages, reqs, verStart, pubOrder, loadVars>>

(* Lines 88-118: the upload is sent to storage *)
UploadStart(file, timestamp) ==
    /\ nInv >= 1
    /\ ~uploading
    /\ nOps < MaxOps
    /\ nInv + Reserved < MaxLoads
    /\ startsWith(file.type, imageSlash)
    /\ uploading' = TRUE
    /\ nOps' = nOps + 1
    /\ ops' = [ops EXCEPT ![nOps + 1] =
                  [NoOp EXCEPT !.kind = "upload", !.pc = "mutating",
                               !.path = UploadPath(file, timestamp), !.data = Some(file.size)]]
    /\ UNCHANGED <<bucket, cuts, engine, ver, images, loading, lastAlert, nInv, pc, nextToken,
                   allImages, reqs, verStart, pubOrder, loadVars>>

(* Lines 104-118: storage stores the object of an upload that was sent;    *)
(* the response has not arrived yet                                        *)
UploadStored(h) ==
    /\ ops[h].kind = "upload"
    /\ ops[h].pc = "mutating"
    /\ ops[h].ver = 0
    /\ ver' = ver + 1
    /\ bucket' = Put(bucket, [path |-> ops[h].path, size |-> ops[h].data,
                              lastModified |-> Some(ver')])
    /\ ops' = [ops EXCEPT ![h].ver = ver']
    /\ UNCHANGED <<cuts, engine, images, loading, uploading, lastAlert, nInv, pc,
                   nextToken, allImages, reqs, verStart, pubOrder, nOps, loadVars>>

(* Mutant: the handler does not reload after the upload *)
UploadOkNoReload(h) ==
    /\ ops[h].kind = "upload"
    /\ ops[h].pc = "mutating"
    /\ ops[h].ver # 0
    /\ lastAlert' = "uploadDone"
    /\ uploading' = FALSE
    /\ ops' = [ops EXCEPT ![h].pc = "done"]
    /\ UNCHANGED <<bucket, cuts, engine, ver, images, loading, nInv, pc, nextToken,
                   allImages, reqs, verStart, pubOrder, nOps, loadVars>>

(* Lines 104-121: the upload, which storage has performed, resolves and    *)
(* the handler reloads the list                                            *)
UploadOk(h) ==
    /\ ops[h].kind = "upload"
    /\ ops[h].pc = "mutating"
    /\ ops[h].ver # 0
    /\ lastAlert' = "uploadDone"
    /\ ops' = [ops EXCEPT ![h].pc = "loading", ![h].load = nInv + 1]
    /\ UNCHANGED <<bucket, cuts, engine, ver, uploading, nOps>>
    /\ StartLoad(nInv + 1)

(* Lines 125-131: the upload rejects, whether storage has stored the       *)
(* object (the response was lost) or not                                   *)
UploadFail(h) ==
    /\ ops[h].kind = "upload"
    /\ ops[h].pc = "mutating"
    /\ lastAlert' = "uploadFailed"
    /\ uploading' = FALSE
    /\ ops' = [ops EXCEPT ![h].pc = "caught"]
    /\ UNCHANGED <<bucket, cuts, engine, ver, images, loading, nInv, pc, nextToken, allImages,
                   reqs, verStart, pubOrder, nOps, loadVars>>

----------------------------------------------------------------------------
(* handleDelete *)

(* Lines 135-141, 241-287: the delete button of a card of the grid, which  *)
(* is rendered when loading is false; the user confirms                    *)
DeleteStart(k) ==
    /\ nInv >= 1
    /\ ~loading
    /\ k \in 1..Len(images)
    /\ nOps < MaxOps
    /\ nInv + Reserved < MaxLoads
    /\ nOps' = nOps + 1
    /\ ops' = [ops EXCEPT ![nOps + 1] =
                  [NoOp EXCEPT !.kind = "delete", !.pc = "mutating",
                               !.path = images[k].key]]
    /\ UNCHANGED <<bucket, cuts, engine, ver, images, loading, uploading, lastAlert, nInv, pc,
                   nextToken, allImages, reqs, verStart, pubOrder, loadVars>>

(* Lines 139-141: storage removes the object of a removal that was sent;   *)
(* the response has not arrived yet                                        *)
DeleteStored(h) ==
    /\ ops[h].kind = "delete"
    /\ ops[h].pc = "mutating"
    /\ ops[h].ver = 0
    /\ ver' = ver + 1
    /\ bucket' = RemovePath(bucket, ops[h].path)
    /\ ops' = [ops EXCEPT ![h].ver = ver']
    /\ UNCHANGED <<cuts, engine, images, loading, uploading, lastAlert, nInv, pc,
                   nextToken, allImages, reqs, verStart, pubOrder, nOps, loadVars>>

(* Lines 139-144: the removal, which storage has performed, resolves and   *)
(* the handler reloads the list                                            *)
DeleteOk(h) ==
    /\ ops[h].kind = "delete"
    /\ ops[h].pc = "mutating"
    /\ ops[h].ver # 0
    /\ lastAlert' = "deleteDone"
    /\ ops' = [ops EXCEPT ![h].pc = "loading", ![h].load = nInv + 1]
    /\ UNCHANGED <<bucket, cuts, engine, ver, uploading, nOps>>
    /\ StartLoad(nInv + 1)

(* Lines 145-148: remove rejects, whether storage has removed the object   *)
(* (the response was lost) or not                                          *)
DeleteFail(h) ==
    /\ ops[h].kind = "delete"
    /\ ops[h].pc = "mutating"
    /\ lastAlert' = "deleteFailed"
    /\ ops' = [ops EXCEPT ![h].pc = "caught"]
    /\ UNCHANGED <<bucket, cuts, engine, ver, images, loading, uploading, nInv, pc, nextToken,
                   allImages, reqs, verStart, pubOrder, nOps, loadVars>>

----------------------------------------------------------------------------
Next ==
    \/ Mount
    \/ Refresh
    \/ \E i \in Inv : ListAnswer(i)
    \/ \E i \in Inv : ListOk(i)
    \/ \E i \in Inv : ListFail(i)
    \/ \E i \in Inv : \E k \in 1..MaxPageLen : UrlOk(i, k)
    \/ \E i \in Inv : \E k \in 1..MaxPageLen : UrlFail(i, k)
    \/ \E file \in Files : UploadRefused(file)
    \/ \E file \in Files : \E timestamp \in DateNow : UploadStart(file, timestamp)
    \/ \E h \in Ops : UploadStored(h)
    \/ \E h \in Ops : UploadOk(h)
    \/ \E h \in Ops : UploadFail(h)
    \/ \E k \in 1..Len(images) : DeleteStart(k)
    \/ \E h \in Ops : DeleteStored(h)
    \/ \E h \in Ops : DeleteOk(h)
    \/ \E h \in Ops : DeleteFail(h)

Spec == Init /\ [][Next]_vars

----------------------------------------------------------------------------
(* What the properties speak of *)

Keys(recs) == [k \in 1..Len(recs) |-> recs[k].key]

(* a record sequence without its access URLs *)
Meta(recs) ==
    [k \in 1..Len(recs) |->
        [key |-> recs[k].key, size |-> recs[k].size,
         lastModified |-> recs[k].lastModified]]

IsPrefix(s, t) == Len(s) <= Len(t) /\ SubSeq(t, 1, Len(s)) = s

ImageExtensions ==
    {Str(<<"j","p","g">>), Str(<<"j","p","e","g">>), Str(<<"p","n","g">>),
     Str(<<"g","i","f">>), Str(<<"w","e","b","p">>)}

(* a is the small letter b or its capital *)
SameLetter(a, b) == a = b \/ a + 32 = b

(* the key ends, whatever the case of its letters, with a dot and ext *)
HasExtension(path, ext) ==
    /\ Len(path) > Len(ext)
    /\ path[Len(path) - Len(ext)] = 46
    /\ \A k \in 1..Len(ext) : SameLetter(path[Len(path) - Len(ext) + k], ext[k])

(* the records, without URLs, of the image objects of a bucket, in order *)
ExpectedMeta(b) ==
    LET kept == SelectSeq(b, LAMBDA o : \E ext \in ImageExtensions :
                                           HasExtension(o.path, ext))
    IN  [k \in 1..Len(kept) |->
            [key |-> kept[k].path, size |-> kept[k].size,
             lastModified |-> kept[k].lastModified]]

(* the number of pages the store cuts the listing of a bucket into *)
NumPages(b, cs) ==
    LET n[off \in 0..Len(b)] ==
            LET page == ListPage(b, cs, IF off = 0 THEN undefined
                                        ELSE Some(TokenOf(off)), pageSize)
            IN  IF page.nextToken = undefined THEN 1
                ELSE 1 + n[Offset(page.nextToken)]
    IN  n[0]

Started == 1..nInv

(* no storage mutation since invocation i started *)
Quiet(i) == i \in Started /\ verStart[i] = ver

Published(i) == \E k \in 1..Len(pubOrder) : pubOrder[k] = i

----------------------------------------------------------------------------
(* C1: a successful loadImages run over an unchanging bucket publishes     *)
(* exactly the objects whose key ends, case-insensitively, with .jpg,      *)
(* .jpeg, .png, .gif or .webp, in the order of the storage listing,        *)
(* whatever the split into pages.                                          *)
C1_ExactlyImagesInListingOrder ==
    /\ \A i \in Inv :
          (pc[i] = "done" /\ Quiet(i)) =>
              /\ Published(i)
              /\ Meta(allImages[i]) = ExpectedMeta(bucket)
    /\ (pubOrder # <<>> /\ Quiet(Last(pubOrder))) =>
          Meta(images) = ExpectedMeta(bucket)

C1_Witness ==
    /\ bucket = <<o1, o2, o3>>
    /\ pc[1] = "done"
    /\ Quiet(1)
    /\ Len(reqs[1]) = 3
    /\ Keys(images) = <<o1.path, o3.path>>

(* C2: a failed list or getUrl call leaves nothing of that traversal in    *)
(* the images state: images always is the accumulator of an invocation     *)
(* that completed, never that of a failed one, and a published result      *)
(* holds a record for every item the filter retained.                      *)
C2_NoPartialResult ==
    /\ \A i \in Inv : pc[i] = "failed" => ~Published(i)
    /\ images = IF pubOrder = <<>> THEN <<>> ELSE allImages[Last(pubOrder)]
    /\ \A i \in Inv : Published(i) => (pc[i] = "done" /\ Keys(allImages[i]) = got[i])

C2_Witness ==
    \E i \in Inv :
        /\ pc[i] = "failed"
        /\ allImages[i] # <<>>
        /\ Len(got[i]) > Len(allImages[i])
        /\ images # allImages[i]

(* C3, as claimed: a handler that awaits a loadImages invocation in which  *)
(* a list or getUrl call failed observes a failed outcome (its own catch   *)
(* block runs), not a normal completion.                                   *)
C3_CallerObservesFailure ==
    \A h \in Ops :
        (ops[h].load # 0 /\ pc[ops[h].load] = "failed") => ops[h].pc = "caught"

(* C3, amended: a failed list or getUrl call aborts the traversal (nothing *)
(* of the invocation stays pending and it issues no further request) and   *)
(* is handled inside loadImages, which shows its alert; the promise        *)
(* loadImages returns is fulfilled, so the handler awaiting it completes   *)
(* normally and handleFileUpload leaves the uploading state.               *)
C3_FailureHandledInsideLoader ==
    /\ [](\A h \in Ops :
            (ops[h].load # 0 /\ pc[ops[h].load] = "failed") =>
                /\ ops[h].pc = "done"
                /\ (ops[h].kind = "upload" /\ nOps = h) => ~uploading)
    /\ [][\A i \in Inv :
            /\ pc[i] = "failed" =>
                  /\ pc'[i] = "failed"
                  /\ reqs'[i] = reqs[i]
                  /\ resps'[i] = resps[i]
                  /\ urls'[i] = <<>>
                  /\ allImages'[i] = allImages[i]
            /\ (pc[i] # "failed" /\ pc'[i] = "failed") =>
                  lastAlert' = "loadFailed"]_vars

C3_Witness ==
    \E h \in Ops :
        /\ ops[h].kind = "upload"
        /\ ops[h].load # 0
        /\ pc[ops[h].load] = "failed"
        /\ ops[h].pc = "done"

(* C4: within one invocation pages are fetched strictly one after the      *)
(* other: the first request carries no cursor, every later request carries *)
(* the cursor the response before it returned, and while a request is out  *)
(* every earlier response has arrived and all its retained items have been *)
(* resolved and pushed; no request is out while URLs are being resolved.   *)
C4_PagesStrictlySequential ==
    \A i \in Started :
        /\ reqs[i][1] = undefined
        /\ \A n \in 2..Len(reqs[i]) :
              /\ resps[i][n - 1] # undefined
              /\ reqs[i][n] = resps[i][n - 1]
        /\ pc[i] = "list" =>
              /\ Len(reqs[i]) = Len(resps[i]) + 1
              /\ urls[i] = <<>>
              /\ Keys(allImages[i]) = got[i]
        /\ pc[i] = "urls" =>
              /\ Len(reqs[i]) = Len(resps[i])
              /\ Len(urls[i]) = Len(got[i]) - Len(allImages[i])

C4_Witness ==
    \E i \in Inv :
        /\ pc[i] = "list"
        /\ Len(reqs[i]) = 3
        /\ reqs[i][3] # reqs[i][2]
        /\ allImages[i] # <<>>

(* C5: over an unchanging bucket whose listing the store cuts into k       *)
(* pages, an invocation never issues more than k list requests and a       *)
(* completed one has issued exactly k, the last response being the only    *)
(* one without a cursor; an empty bucket takes one request and gives an    *)
(* empty result.                                                           *)
C5_OneRequestPerPage ==
    \A i \in Started :
        /\ Quiet(i) => Len(reqs[i]) <= NumPages(bucket, cuts)
        /\ pc[i] = "done" =>
              /\ Len(reqs[i]) = Len(resps[i])
              /\ Last(resps[i]) = undefined
              /\ \A n \in 1..(Len(resps[i]) - 1) : resps[i][n] # undefined
              /\ Quiet(i) => Len(reqs[i]) = NumPages(bucket, cuts)
              /\ (Quiet(i) /\ bucket = <<>>) =>
                    (Len(reqs[i]) = 1 /\ allImages[i] = <<>>)

C5_Witness ==
    \E i \in Inv :
        /\ pc[i] = "done"
        /\ Quiet(i)
        /\ NumPages(bucket, cuts) = 3
        /\ Len(reqs[i]) = 3

(* C6: two completed invocations with no storage mutation since the first  *)
(* of them started publish records with the same keys, sizes and           *)
(* last-modified values in the same order.                                 *)
C6_Idempotent ==
    \A i, j \in Inv :
        (i < j /\ pc[i] = "done" /\ pc[j] = "done" /\ Quiet(i) /\ Quiet(j)) =>
            /\ Published(i)
            /\ Published(j)
            /\ Meta(allImages[i]) = Meta(allImages[j])

C6_Witness ==
    /\ pc[1] = "done"
    /\ pc[2] = "done"
    /\ Quiet(1)
    /\ Quiet(2)
    /\ pubOrder = <<1, 2>>
    /\ Len(allImages[2]) = 2
    /\ allImages[1] # allImages[2]

(* C7: an invocation's accumulator and cursor are its own: the accumulator *)
(* holds, in order, records of items its own list responses retained,      *)
(* each with a URL its own getUrl calls returned, and its cursor is the    *)
(* one its own latest joined page returned.                                *)
C7_NoSharedState ==
    \A i \in Inv :
        /\ IsPrefix(Keys(allImages[i]), got[i])
        /\ \A k \in 1..Len(allImages[i]) : allImages[i][k].url.sig = i
        /\ pc[i] = "list" =>
              nextToken[i] = (IF resps[i] = <<>> THEN undefined ELSE Last(resps[i]))
        /\ pc[i] = "idle" => (allImages[i] = <<>> /\ nextToken[i] = undefined)

C7_Witness ==
    /\ InFlight(1)
    /\ InFlight(2)
    /\ allImages[1] # <<>>
    /\ allImages[2] # <<>>
    /\ Len(allImages[1]) # Len(allImages[2])
    /\ nextToken[1] # nextToken[2]

(* C8, as claimed: the loader runs once on mount and again after every     *)
(* mutation: nothing happens before the mount load starts, and once the    *)
(* handler of an upload or delete that storage performed has finished, it  *)
(* has started a load after the mutation and that load's result has been   *)
(* passed to setImages.                                                    *)
C8_ReloadAfterEveryMutation ==
    /\ nInv = 0 => (nOps = 0 /\ ver = 0 /\ images = <<>> /\ loading)
    /\ \A h \in Ops :
          (ops[h].ver # 0 /\ ops[h].pc \in {"done", "caught"}) =>
              /\ ops[h].load \in Started
              /\ verStart[ops[h].load] >= ops[h].ver
              /\ Published(ops[h].load)

(* C8, amended: the loader runs once on mount and again after every upload *)
(* or delete whose call resolved.  Nothing happens before the mount load   *)
(* starts.  A handler whose call resolved has, in the very step in which   *)
(* it resumed, started a loadImages invocation of its own, after storage   *)
(* performed the mutation; when that invocation completes successfully,    *)
(* that step passes its result to setImages and clears loading, so the     *)
(* grid is rendered from it.  A handler whose call rejected starts no      *)
(* load, although storage may have performed the mutation, and a load that *)
(* fails leaves the grid as it was.                                        *)
C8_ReloadAfterResolvedMutation ==
    /\ [](/\ nInv = 0 => (nOps = 0 /\ ver = 0 /\ images = <<>> /\ loading)
          /\ ver = Cardinality({h \in Ops : ops[h].ver # 0})
          /\ \A h \in Ops :
                /\ ops[h].pc \in {"loading", "done"} =>
                      /\ ops[h].ver # 0
                      /\ ops[h].load \in Started
                      /\ ops[h].load > 1
                      /\ verStart[ops[h].load] >= ops[h].ver
                      /\ (ops[h].pc = "loading") <=> InFlight(ops[h].load)
                /\ ops[h].pc \in {"idle", "mutating", "caught", "refused"} =>
                      ops[h].load = 0)
    /\ [][\A h \in Ops :
            /\ (ops[h].pc = "mutating" /\ ops'[h].pc = "loading") =>
                  /\ ops[h].ver # 0
                  /\ bucket' = bucket
                  /\ nInv' = nInv + 1
                  /\ ops'[h].load = nInv'
                  /\ pc'[nInv'] = "list"
                  /\ reqs'[nInv'] = <<undefined>>
                  /\ loading'
            /\ (ops[h].pc = "loading" /\ ops'[h].pc = "done") =>
                  IF pc'[ops[h].load] = "done"
                  THEN /\ images' = allImages'[ops[h].load]
                       /\ Last(pubOrder') = ops[h].load
                       /\ ~loading'
                  ELSE /\ pc'[ops[h].load] = "failed"
                       /\ images' = images]_vars

C8_Witness ==
    \E h \in Ops :
        /\ ops[h].kind = "delete"
        /\ ops[h].pc = "done"
        /\ pc[ops[h].load] = "done"
        /\ images = allImages[ops[h].load]
        /\ Len(images) = 1
        /\ ~loading

(* C9: the loading flag is true whenever a loadImages invocation is in     *)
(* flight.                                                                 *)
C9_LoadingWhileInFlight ==
    (\E i \in Inv : InFlight(i)) => loading

(* C10: when no load is in flight and every started load succeeded, the    *)
(* images state is the result of the load that started last.               *)
C10_LastStartedWins ==
    (nInv >= 1 /\ \A i \in Started : pc[i] = "done") =>
        Meta(images) = Meta(allImages[nInv])

====
